---- MODULE Spec2Model ----
(***************************************************************************)
(* Model of client/service/notebooks.go: the NotebooksAPI binding.         *)
(*                                                                         *)
(* Two state machines share the module.                                    *)
(*   Spec / FairSpec           one caller running List(path, recursive)    *)
(*                             against a remote workspace tree, one step   *)
(*                             per remote list call or loop iteration.     *)
(*   MutexSpec / FairMutexSpec several goroutines calling Mkdirs, Create,  *)
(*                             Read, Export, List and Delete concurrently, *)
(*                             one step per blocking point.                *)
(***************************************************************************)
EXTENDS Integers, Sequences, FiniteSets, TLC

VARIABLES
    \* ---- concurrent callers ----
    mkdirMtx,   \* the package-level mutex: TRUE when locked
    pc,         \* per goroutine: "idle", "lock", "mkdirs", "query"
    call,       \* per goroutine: the call in progress, or NoCall
    result,     \* per goroutine: what its last Mkdirs call returned
    \* ---- List traversal ----
    remote,     \* the remote workspace tree
    lpc,        \* "idle", "rec", "flat", "done"
    arg,        \* arguments of the List call in progress
    stack,      \* activations of recursiveAddPaths, innermost last
    pathList,   \* the slice *pathList
    calls,      \* log of remote /workspace/list requests, oldest first
    ret         \* what List returned

mvars == <<mkdirMtx, pc, call, result>>
lvars == <<remote, lpc, arg, stack, pathList, calls, ret>>
vars  == <<mkdirMtx, pc, call, result, remote, lpc, arg, stack, pathList, calls, ret>>

----------------------------------------------------------------------------
(* Bounds *)

NumCallers == 3
MaxNodes == 3

Procs   == 1..NumCallers
Clients == {"c1", "c2"}
ReqPaths == {"/a", "/b"}

NoErr  == "nil"
Errors == {"HttpErr", "DecodeErr"}
NoCall == [op |-> "none", client |-> "none", path |-> "none"]
NoResult == "none"

----------------------------------------------------------------------------
(* Concurrent callers                                                      *)

\* sync.Mutex.Lock proceeds only when the mutex is unlocked.
CanLock_NoCheck(m) == TRUE

CanLock(m) == ~m

\* defer mkdirMtx.Unlock(): runs on every return, whatever err is.
DeferredUnlock_SkipOnErr(m, err) == IF err # NoErr THEN m ELSE FALSE

DeferredUnlock(m, err) == FALSE

\* Does this operation go through mkdirMtx before its request?
TakesLock_All(op) == TRUE

TakesLock(op) == op = "Mkdirs"

Begin(p, op, c, path) ==
    /\ pc[p] = "idle"
    /\ call' = [call EXCEPT ![p] = [op |-> op, client |-> c, path |-> path]]
    /\ result' = [result EXCEPT ![p] = NoResult]
    /\ pc' = [pc EXCEPT ![p] = IF TakesLock(op) THEN "lock" ELSE "query"]
    /\ UNCHANGED mkdirMtx
    /\ UNCHANGED lvars

\* Mkdirs up to the point where it blocks in mkdirMtx.Lock().
MkdirsCall(p) == \E c \in Clients, path \in ReqPaths : Begin(p, "Mkdirs", c, path)

\* Lock() is granted and the /workspace/mkdirs request is sent.
MkdirsLock(p) ==
    /\ pc[p] = "lock"
    /\ CanLock(mkdirMtx)
    /\ mkdirMtx' = TRUE
    /\ pc' = [pc EXCEPT ![p] = "mkdirs"]
    /\ UNCHANGED <<call, result>>
    /\ UNCHANGED lvars

\* performQuery returns; the deferred Unlock runs; Mkdirs returns err.
MkdirsReturn(p) ==
    /\ pc[p] = "mkdirs"
    /\ \E err \in {NoErr, "HttpErr"} :
          /\ mkdirMtx' = DeferredUnlock(mkdirMtx, err)
          /\ result' = [result EXCEPT ![p] = err]
    /\ pc' = [pc EXCEPT ![p] = "idle"]
    /\ call' = [call EXCEPT ![p] = NoCall]
    /\ UNCHANGED lvars

\* The lock-free operations up to their performQuery call.  For the locking
\* discipline a List call is one request in flight at a time; its traversal
\* is the subject of Spec below.
Create(p)   == Begin(p, "Create", "c1", "/a")
Read(p)     == Begin(p, "Read", "c1", "/a")
Export(p)   == Begin(p, "Export", "c1", "/a")
ListOp(p)   == Begin(p, "List", "c1", "/a")
Delete(p)   == Begin(p, "Delete", "c1", "/a")

\* performQuery of a lock-free operation returns, with or without an error,
\* and the operation returns to its caller.
QueryReturn(p) ==
    /\ pc[p] = "query"
    /\ UNCHANGED result
    /\ pc' = [pc EXCEPT ![p] = "idle"]
    /\ call' = [call EXCEPT ![p] = NoCall]
    /\ UNCHANGED mkdirMtx
    /\ UNCHANGED lvars

EmptyRemote == [objType |-> <<>>, parent |-> <<>>, rev |-> FALSE]
NoArg == [path |-> 0, recursive |-> FALSE]
NoRet == [objs |-> <<>>, err |-> "none"]

MutexInit ==
    /\ mkdirMtx = FALSE
    /\ pc = [p \in Procs |-> "idle"]
    /\ call = [p \in Procs |-> NoCall]
    /\ result = [p \in Procs |-> NoResult]
    /\ remote = EmptyRemote
    /\ lpc = "idle"
    /\ arg = NoArg
    /\ stack = <<>>
    /\ pathList = <<>>
    /\ calls = <<>>
    /\ ret = NoRet

MutexNext ==
    \E p \in Procs :
        \/ MkdirsCall(p)
        \/ MkdirsLock(p)
        \/ MkdirsReturn(p)
        \/ Create(p)
        \/ Read(p)
        \/ Export(p)
        \/ ListOp(p)
        \/ Delete(p)
        \/ QueryReturn(p)

MutexSpec == MutexInit /\ [][MutexNext]_vars

FairMutexSpec ==
    /\ MutexSpec
    /\ \A p \in Procs : SF_vars(MkdirsLock(p)) /\ WF_vars(MkdirsReturn(p))

----------------------------------------------------------------------------
(* The remote workspace                                                    *)

Notebook  == "NOTEBOOK"
Directory == "DIRECTORY"
Library   == "LIBRARY"
ObjectTypes == {Notebook, Directory, Library}

\* Objects are numbered; object 0 is the workspace root directory and the
\* number of an object stands for its path.
Root  == 0
Nodes == 1..MaxNodes

IsDir(r, n) == IF n = Root THEN TRUE ELSE r.objType[n] = Directory

\* Every object lies in a directory created before it: the workspace is a
\* finite tree.
ParentMaps == {q \in [Nodes -> 0..(MaxNodes - 1)] : \A n \in Nodes : q[n] < n}

ValidTree(r) == \A m \in Nodes : IsDir(r, r.parent[m])

Trees ==
    {r \in [objType : [Nodes -> ObjectTypes], parent : ParentMaps, rev : BOOLEAN] :
        ValidTree(r)}

\* One element of the "objects" array of a /workspace/list response.
Entry(r, n) == [path |-> n, object_type |-> r.objType[n]]

RECURSIVE ChildrenFrom(_, _, _)
ChildrenFrom(r, d, k) ==
    IF k > MaxNodes THEN <<>>
    ELSE (IF r.parent[k] = d THEN <<Entry(r, k)>> ELSE <<>>) \o ChildrenFrom(r, d, k + 1)

Reverse(s) == [i \in 1..Len(s) |-> s[Len(s) + 1 - i]]

\* The objects the remote returns for a directory, in the remote's order.
Listing(r, d) ==
    IF r.rev THEN Reverse(ChildrenFrom(r, d, 1)) ELSE ChildrenFrom(r, d, 1)

\* list(path): performQuery fails (no objects), or json.Unmarshal fails
\* (objects decoded so far), or both succeed.
ListOutcomes(r, path) ==
    {[objs |-> Listing(r, path), err |-> NoErr]}
        \cup {[objs |-> <<>>, err |-> "HttpErr"]}
        \cup {[objs |-> SubSeq(Listing(r, path), 1, k), err |-> "DecodeErr"] :
                 k \in 0..Len(Listing(r, path))}

----------------------------------------------------------------------------
(* List and recursiveAddPaths                                              *)

\* if recursive { ... }
TakesRecursiveBranch_Always(recursive) == TRUE

TakesRecursiveBranch(recursive) == recursive

\* *pathList = append(*pathList, v)
AppendPath_Front(list, v) == <<v>> \o list

AppendPath(list, v) == Append(list, v)

\* v.ObjectType == model.Notebook
IsNotebookEntry_NotDirectory(v) == v.object_type # Directory

IsNotebookEntry(v) == v.object_type = Notebook

\* v.ObjectType == model.Directory
IsDirectoryEntry_AnyOther(v) == v.object_type # Notebook

IsDirectoryEntry(v) == v.object_type = Directory

\* The caller's loop after a.recursiveAddPaths(v.Path, pathList) returned e:
\* a non-nil e is returned at once, otherwise the loop goes on.
AfterChild_IgnoreErr(g, e) == [g EXCEPT !.i = @ + 1]

AfterChild(g, e) ==
    IF e # NoErr THEN [g EXCEPT !.err = e] ELSE [g EXCEPT !.i = @ + 1]

\* What List returns once recursiveAddPaths returned e.
ListResult_Partial(paths, e) == [objs |-> paths, err |-> e]

ListResult(paths, e) ==
    IF e # NoErr THEN [objs |-> <<>>, err |-> e] ELSE [objs |-> paths, err |-> e]

\* The activation of recursiveAddPaths(path) after its a.list(path) call:
\* the range loop starts at the first object.
Frame_FromSecond(path, out) == [path |-> path, objs |-> out.objs, i |-> 2, err |-> out.err]

Frame(path, out) == [path |-> path, objs |-> out.objs, i |-> 1, err |-> out.err]

Top == stack[Len(stack)]
Looping == lpc = "rec" /\ stack # <<>> /\ Top.err = NoErr /\ Top.i <= Len(Top.objs)
Cur == Top.objs[Top.i]
SetTop(f) == [stack EXCEPT ![Len(stack)] = f]
Pop == SubSeq(stack, 1, Len(stack) - 1)

\* List(path, recursive) up to the return of its first remote list call.
List(path, recursive) ==
    /\ lpc \in {"idle", "done"}
    /\ IsDir(remote, path)
    /\ arg' = [path |-> path, recursive |-> recursive]
    /\ \E out \in ListOutcomes(remote, path) :
          /\ calls' = <<[path |-> path, err |-> out.err]>>
          /\ IF TakesRecursiveBranch(recursive)
               THEN /\ stack' = <<Frame(path, out)>>
                    /\ pathList' = <<>>
                    /\ ret' = NoRet
                    /\ lpc' = "rec"
               ELSE /\ stack' = <<>>
                    /\ pathList' = <<>>
                    /\ ret' = [objs |-> out.objs, err |-> out.err]
                    /\ lpc' = "done"
    /\ UNCHANGED remote
    /\ UNCHANGED mvars

\* Loop body, notebook entry.
AddNotebook ==
    /\ Looping
    /\ IsNotebookEntry(Cur)
    /\ pathList' = AppendPath(pathList, Cur)
    /\ stack' = SetTop([Top EXCEPT !.i = @ + 1])
    /\ UNCHANGED <<remote, lpc, arg, calls, ret>>
    /\ UNCHANGED mvars

\* Loop body, directory entry: recursiveAddPaths(v.Path) is entered and
\* issues its remote list call.
Descend ==
    /\ Looping
    /\ ~IsNotebookEntry(Cur)
    /\ IsDirectoryEntry(Cur)
    /\ \E out \in ListOutcomes(remote, Cur.path) :
          /\ calls' = Append(calls, [path |-> Cur.path, err |-> out.err])
          /\ stack' = Append(stack, Frame(Cur.path, out))
    /\ UNCHANGED <<remote, lpc, arg, pathList, ret>>
    /\ UNCHANGED mvars

\* Loop body, entry of any other type.
SkipOther ==
    /\ Looping
    /\ ~IsNotebookEntry(Cur)
    /\ ~IsDirectoryEntry(Cur)
    /\ stack' = SetTop([Top EXCEPT !.i = @ + 1])
    /\ UNCHANGED <<remote, lpc, arg, pathList, calls, ret>>
    /\ UNCHANGED mvars

\* A nested recursiveAddPaths returns to the loop of its caller.
ReturnToCaller ==
    /\ lpc = "rec"
    /\ Len(stack) > 1
    /\ ~Looping
    /\ stack' = [Pop EXCEPT ![Len(stack) - 1] = AfterChild(@, Top.err)]
    /\ UNCHANGED <<remote, lpc, arg, pathList, calls, ret>>
    /\ UNCHANGED mvars

\* The outermost recursiveAddPaths returns to List, which returns.
ReturnToList ==
    /\ lpc = "rec"
    /\ Len(stack) = 1
    /\ ~Looping
    /\ ret' = ListResult(pathList, Top.err)
    /\ stack' = <<>>
    /\ lpc' = "done"
    /\ UNCHANGED <<remote, arg, pathList, calls>>
    /\ UNCHANGED mvars

Init ==
    /\ remote \in Trees
    /\ lpc = "idle"
    /\ arg = NoArg
    /\ stack = <<>>
    /\ pathList = <<>>
    /\ calls = <<>>
    /\ ret = NoRet
    /\ mkdirMtx = FALSE
    /\ pc = [p \in Procs |-> "idle"]
    /\ call = [p \in Procs |-> NoCall]
    /\ result = [p \in Procs |-> NoResult]

Next ==
    \/ \E path \in {Root} \cup Nodes, recursive \in BOOLEAN : List(path, recursive)
    \/ AddNotebook
    \/ Descend
    \/ SkipOther
    \/ ReturnToCaller
    \/ ReturnToList

Spec == Init /\ [][Next]_vars

\* The caller is a sequential program: it keeps running.
FairSpec == Spec /\ WF_vars(Next)

----------------------------------------------------------------------------
(* Properties of the concurrent callers (MutexSpec, FairMutexSpec)         *)

InMkdirsRequest == {p \in Procs : pc[p] = "mkdirs"}
OtherOps == {"Create", "Read", "Export", "List", "Delete"}

\* C1: at most one caller is inside the remote /workspace/mkdirs request at
\* any time, whatever clients and paths the callers use.
C1_MkdirsNeverOverlap == Cardinality(InMkdirsRequest) <= 1

\* A caller is in its mkdirs request while another caller, using another
\* client and another path, has called Mkdirs and is held back.
C1_Witness ==
    \E p, q \in Procs :
        /\ pc[p] = "mkdirs"
        /\ pc[q] = "lock"
        /\ call[p].client # call[q].client
        /\ call[p].path # call[q].path

C9_LockReleasedAndGranted ==
    /\ []((InMkdirsRequest = {}) => ~mkdirMtx)
    /\ \A p \in Procs : (pc[p] = "lock") ~> (pc[p] = "mkdirs")

\* A Mkdirs call has returned an error, the lock is free, and another caller
\* is waiting for it.
C9_Witness ==
    \E p, q \in Procs :
        /\ result[p] = "HttpErr"
        /\ pc[p] = "idle"
        /\ pc[q] = "lock"
        /\ ~mkdirMtx

----------------------------------------------------------------------------
(* Properties of List (Spec, FairSpec)                                     *)

\* Object n lies strictly below directory d in the remote tree.
RECURSIVE Under(_, _, _)
Under(r, n, d) ==
    IF n = Root THEN FALSE
    ELSE IF r.parent[n] = d THEN TRUE
    ELSE Under(r, r.parent[n], d)

ObjectsUnder(d, type) ==
    {n \in Nodes : remote.objType[n] = type /\ Under(remote, n, d)}

Range(s) == {s[i] : i \in DOMAIN s}
CallPaths == {calls[i].path : i \in DOMAIN calls}
AllCallsOk == \A i \in DOMAIN calls : calls[i].err = NoErr
SomeCallFailed == \E i \in DOMAIN calls : calls[i].err # NoErr
RecursiveDone == lpc = "done" /\ arg.recursive
FlatDone == lpc = "done" /\ ~arg.recursive

C3_OneCallPerDirectory ==
    /\ []((RecursiveDone /\ AllCallsOk) =>
            /\ calls[1].path = arg.path
            /\ CallPaths = {arg.path} \cup ObjectsUnder(arg.path, Directory)
            /\ Len(calls) = 1 + Cardinality(ObjectsUnder(arg.path, Directory)))
    /\ (lpc = "rec") ~> (lpc = "done")

\* Recursive List has returned after listing a directory nested two levels
\* below path and a sibling directory.
C3_Witness ==
    /\ RecursiveDone /\ AllCallsOk
    /\ Len(calls) >= 3
    /\ \E i \in DOMAIN calls :
          calls[i].path # Root /\ remote.parent[calls[i].path] # arg.path

\* C4: if a remote list call failed, recursive List returns that call's error
\* and no objects.
C4_ErrorAndNoPartialResult ==
    RecursiveDone =>
        \A i \in DOMAIN calls :
            calls[i].err # NoErr => ret.err = calls[i].err /\ ret.objs = <<>>

\* Recursive List has returned after a nested list call failed when notebooks
\* had already been collected.
C4_Witness ==
    /\ RecursiveDone
    /\ Len(calls) >= 2
    /\ calls[Len(calls)].err = "DecodeErr"
    /\ pathList # <<>>

\* C6: in recursive List a failed list call is the last remote call made.
C6_FirstErrorIsLastCall ==
    arg.recursive =>
        \A i \in DOMAIN calls : calls[i].err # NoErr => i = Len(calls)

\* Recursive List has returned after a failed list call while a directory
\* below path was still unvisited.
C6_Witness ==
    /\ RecursiveDone
    /\ SomeCallFailed
    /\ \E d \in ObjectsUnder(arg.path, Directory) :
          /\ d \notin CallPaths
          /\ remote.parent[d] \in CallPaths

\* Position of object n in the listing of its directory.
PosIn(r, n) ==
    CHOOSE k \in 1..Len(Listing(r, r.parent[n])) : Listing(r, r.parent[n])[k].path = n

\* Listing positions on the way from directory d down to object n.
RECURSIVE Key(_, _, _)
Key(r, n, d) ==
    IF r.parent[n] = d THEN <<PosIn(r, n)>>
    ELSE Append(Key(r, r.parent[n], d), PosIn(r, n))

LexLess(a, b) ==
    \E k \in 1..Len(a) :
        /\ k <= Len(b)
        /\ a[k] < b[k]
        /\ \A j \in 1..(k - 1) : a[j] = b[j]

\* C7: the result of recursive List is in depth-first listing order: entries
\* of one listing keep their order, and the notebooks below a directory entry
\* come before those of any later entry of the same listing.
C7_DepthFirstListingOrder ==
    (RecursiveDone /\ AllCallsOk) =>
        \A i, j \in DOMAIN ret.objs :
            i < j => LexLess(Key(remote, ret.objs[i].path, arg.path),
                             Key(remote, ret.objs[j].path, arg.path))

\* The remote lists in descending order, and the result holds a notebook of a
\* subdirectory ahead of a notebook listed after that subdirectory.
C7_Witness ==
    /\ RecursiveDone /\ AllCallsOk
    /\ remote.rev
    /\ \E i, j \in DOMAIN ret.objs :
          /\ i < j
          /\ remote.parent[ret.objs[i].path] # arg.path
          /\ remote.parent[ret.objs[j].path] = arg.path

\* C8: non-recursive List issues one list call, for path, and returns what
\* that call returned, directory entries included.
C8_FlatListsOneLevel ==
    FlatDone =>
        /\ Len(calls) = 1
        /\ calls[1].path = arg.path
        /\ ret.err = calls[1].err
        /\ ret.err = NoErr => ret.objs = Listing(remote, arg.path)

\* Non-recursive List has returned a non-empty directory next to a notebook.
C8_Witness ==
    /\ FlatDone
    /\ ret.err = NoErr
    /\ \E i, j \in DOMAIN ret.objs :
          /\ ret.objs[i].object_type = Directory
          /\ Listing(remote, ret.objs[i].path) # <<>>
          /\ ret.objs[j].object_type = Notebook

====
